---- MODULE Spec2Model ----
(***************************************************************************)
(* The resilient fetch layer of jup-sdk-rs: RetrySettings, the             *)
(* exponential_backoff helper, Fetcher::fetch_with_retry (src/fetcher.rs)  *)
(* and the suspension primitives compat::sleep / compat::timeout           *)
(* (src/compat.rs), as one state machine that follows a fetch_with_retry  *)
(* call from await point to await point, with the locals of a second call  *)
(* on the same Fetcher kept aside.                                         *)
(***************************************************************************)
EXTENDS Integers, Sequences, FiniteSets, TLC

(***************************************************************************)
(* Bounds of the model.                                                    *)
(***************************************************************************)
\* max_retries is drawn from 0..SmallRetries, and is also the first value
\* whose last retry overflows the u32 backoff factor (see RetriesChoices).
SmallRetries == 2
\* request_timeout is drawn from 1..MaxTimeout clock ticks.
MaxTimeout == 2
\* How many ticks may pass between a wake-up of the task (the timer fired or
\* the transport answered) and the poll of the select that observes it.
MaxLatency == 1

(***************************************************************************)
(* Integers with their width.  A u32 is a pair <<hi, lo>> of 16-bit halves *)
(* (value hi * 2^16 + lo); a Duration, in the unit of base_backoff, is a   *)
(* pair <<high, lo>> with lo a 16-bit half and high unbounded.             *)
(***************************************************************************)
\* The width of the backoff factor, a u32.
FactorBits == 32
HalfBits == FactorBits \div 2
HalfWord == 2 ^ HalfBits

\* 2u32.pow(exp): the result wrapped to 32 bits, and whether the true power
\* left the 32 bits (a panic when overflow checks are compiled in).  2^exp
\* mod 2^32 is a single bit in the low half, then in the high half, then 0.
U32PowTwo(exp) ==
    IF exp < HalfBits
    THEN [value |-> <<0, 2 ^ exp>>, overflow |-> FALSE]
    ELSE IF exp < FactorBits
         THEN [value |-> <<2 ^ (exp - HalfBits), 0>>, overflow |-> FALSE]
         ELSE [value |-> <<0, 0>>, overflow |-> TRUE]

\* u32::saturating_sub(1)
SaturatingSubOne(n) == IF n = 0 THEN 0 ELSE n - 1

\* Duration * u32 (base a small number of units; no wrap: Duration holds
\* 64 bits of seconds, far above any product the model forms).
DurationMul(base, factor) ==
    LET l == base * factor[2]
    IN  <<base * factor[1] + (l \div HalfWord), l % HalfWord>>

\* A Duration of `units` units (units < HalfWord).
DurationOf(units) == <<0, units>>

\* base * 2^e as a Duration, without width (base < HalfWord).
WideTimesPowTwo(base, e) ==
    IF e < HalfBits
    THEN <<(base * 2 ^ e) \div HalfWord, (base * 2 ^ e) % HalfWord>>
    ELSE <<base * 2 ^ (e - HalfBits), 0>>

\* d1 < d2 on Durations.
DurationLess(d1, d2) == d1[1] < d2[1] \/ (d1[1] = d2[1] /\ d1[2] < d2[2])

(***************************************************************************)
(* exponential_backoff (fetcher.rs:43-50).  The result is the delay, or a  *)
(* panic when the factor overflows and the build checks overflow.          *)
(***************************************************************************)
exponential_backoff_doubled(retries, base_backoff, overflow_checks) ==
    \* the other convention, 2^retries
    LET p == U32PowTwo(retries)
    IN  IF p.overflow /\ overflow_checks
        THEN [panic |-> TRUE, delay |-> DurationOf(0)]
        ELSE [panic |-> FALSE, delay |-> DurationMul(base_backoff, p.value)]

exponential_backoff(retries, base_backoff, overflow_checks) ==
    IF retries = 0
    THEN [panic |-> FALSE, delay |-> DurationOf(base_backoff)]
    ELSE LET exponential_factor == U32PowTwo(SaturatingSubOne(retries))
         IN  IF exponential_factor.overflow /\ overflow_checks
             THEN [panic |-> TRUE, delay |-> DurationOf(0)]
             ELSE [panic |-> FALSE,
                   delay |-> DurationMul(base_backoff, exponential_factor.value)]

(***************************************************************************)
(* Errors and their messages.  A message is a sequence of words (strings); *)
(* str::contains is the search for a contiguous run of words.  An error is *)
(* an anyhow chain: chain[1] is what to_string() shows, the last layer is  *)
(* root_cause(); reqwest tells whether the root is a reqwest::Error and    *)
(* what is_connect() / is_request() answer on it.                          *)
(***************************************************************************)
Url == "https://example/ok"

Contains(msg, pat) ==
    \E i \in 1..(Len(msg) - Len(pat) + 1) : SubSeq(msg, i, i + Len(pat) - 1) = pat

to_string(e) == e.chain[1]
root_cause(e) == e.chain[Len(e.chain)]
\* anyhow::Error::context: a new outermost layer, the root unchanged.
context(e, msg) == [e EXCEPT !.chain = <<msg>> \o @]

\* anyhow!("..."): an error that is no reqwest::Error.
anyhow_msg(msg) ==
    [chain |-> <<msg>>, reqwest |-> FALSE, connect |-> FALSE, request |-> FALSE]

\* Display of a Duration of `ticks` clock ticks.
DurationDebug(ticks) == ToString(ticks) \o "ms"

\* compat.rs:44 and compat.rs:71
TimedOutError(duration) ==
    anyhow_msg(<<"Operation", "timed", "out", "after", DurationDebug(duration)>>)

\* The transport errors reqwest can hand back from send(): a connect
\* failure, another request failure, an error that is neither (redirect,
\* body, decode, builder), and a request failure whose message reports that
\* the transport itself timed out.
TransportErrors ==
    { [chain |-> <<(<<"error", "sending", "request", "for", "url", Url>>)>>,
       reqwest |-> TRUE, connect |-> TRUE, request |-> TRUE],
      [chain |-> <<(<<"error", "sending", "request", "for", "url", Url>>)>>,
       reqwest |-> TRUE, connect |-> FALSE, request |-> TRUE],
      [chain |-> <<(<<"error", "following", "redirect", "for", "url", Url>>)>>,
       reqwest |-> TRUE, connect |-> FALSE, request |-> FALSE],
      [chain |-> <<(<<"error", "sending", "request", "for", "url", Url,
                     "operation", "timed", "out">>)>>,
       reqwest |-> TRUE, connect |-> FALSE, request |-> TRUE] }

\* The statuses the transport may answer with.
StatusCodes == {101, 200, 304, 404, 500, 503}
is_success(status) == status >= 200 /\ status <= 299
is_server_error(status) == status >= 500 /\ status <= 599
is_client_error(status) == status >= 400 /\ status <= 499

\* The bodies an error response may carry, as read by response.text():
\* the text, or the failure to read it.
ErrorBodies ==
    { [ok |-> TRUE, text |-> <<"{}">>],
      [ok |-> TRUE, text |-> <<"too", "many", "attempts">>],
      [ok |-> FALSE, text |-> <<"error", "decoding", "response", "body">>] }

\* fetcher.rs:133-134
error_body(r) ==
    IF r.ok THEN r.text ELSE <<"Failed", "to", "read", "error", "body:">> \o r.text

\* A status error that reports the attempt count as well.
StatusErrorAfterAttempts(url, status, body) ==
    [chain |-> <<(<<"Request", "to", url, "failed", "after", "all", "attempts:",
                    "Status", ToString(status), ",", "Body:">> \o body)>>,
     reqwest |-> FALSE, connect |-> FALSE, request |-> FALSE]

\* fetcher.rs:135-140
StatusError(url, status, body) ==
    anyhow_msg(<<"Request", "to", url, "failed:", "Status", ToString(status),
                 ",", "Body:">> \o body)

\* fetcher.rs:105-110
DeserializeError(url, status, e) ==
    context(anyhow_msg(<<"Failed", "to", "deserialize", "response", "from", url, ":">> \o e),
            <<"Status:", ToString(status)>>)

\* fetcher.rs:147
is_timeout_error(e) == Contains(to_string(e), <<"timed", "out">>)

\* A classification that takes no transport error for retryable.
is_underlying_retryable_never(e, target) == FALSE

\* fetcher.rs:150-165, per target
is_underlying_retryable(e, target) ==
    IF ~is_timeout_error(e)
    THEN IF target = "wasm32"
         THEN e.reqwest
         ELSE e.reqwest /\ (e.connect \/ e.request)
    ELSE FALSE

\* A context chosen by the kind of error before the budget is looked at.
failure_context_by_kind(e, target, retries, max_retries) ==
    IF is_timeout_error(e)
    THEN <<"due", "to", "timeout">>
    ELSE IF is_underlying_retryable(e, target) /\ retries >= max_retries
         THEN <<"after", ToString(max_retries + 1), "attempts">>
         ELSE <<"due", "to", "non-retryable", "error">>

\* fetcher.rs:184-192
failure_context(e, target, retries, max_retries) ==
    IF (is_timeout_error(e) \/ is_underlying_retryable(e, target))
       /\ retries >= max_retries
    THEN <<"after", ToString(max_retries + 1), "attempts">>
    ELSE IF is_timeout_error(e)
         THEN <<"due", "to", "timeout">>
         ELSE <<"due", "to", "non-retryable", "error">>

\* fetcher.rs:193-196
FailedError(e, url, ctx) == context(e, <<"Request", "to", url, "failed">> \o ctx)

(***************************************************************************)
(* The builds, the settings and the state of one fetch_with_retry call.    *)
(***************************************************************************)
\* A build fixes the target (cfg target_arch), the runtime (feature
\* "worker"), whether integer overflow is checked (debug) or wraps
\* (release), and whether platform_log! logs (feature "log-native").
Builds ==
    { [target |-> "native", runtime |-> "tokio", overflow_checks |-> o, log_native |-> l] :
        o \in BOOLEAN, l \in BOOLEAN }
    \cup
    { [target |-> "wasm32", runtime |-> "worker", overflow_checks |-> o, log_native |-> l] :
        o \in BOOLEAN, l \in BOOLEAN }

\* max_retries: the small values, and the first value whose last retry
\* needs a factor of FactorBits + 1 bits.
RetriesChoices == (0..SmallRetries) \cup {FactorBits + 1}
\* base_backoff, in units.
BackoffChoices == {1, 100}

\* RetrySettings (fetcher.rs:8-12)
RetrySettings ==
    [max_retries : RetriesChoices,
     request_timeout : 1..MaxTimeout,
     base_backoff : BackoffChoices]

\* What JSON decoding of a 2xx body may give: a value, or a decode error.
Payloads == {"todo1", "todo2"}
JsonResults ==
    { [ok |-> TRUE, data |-> d] : d \in Payloads }
    \cup { [ok |-> FALSE, data |-> "expected value at line 1"] }

\* What the send future resolves to: Ok(response) or Err(reqwest error).
SendResults ==
    { [ok |-> TRUE, status |-> st, error |-> anyhow_msg(<<>>)] : st \in StatusCodes }
    \cup { [ok |-> FALSE, status |-> 0, error |-> e] : e \in TransportErrors }

NoResult == [ok |-> FALSE, status |-> 0, error |-> anyhow_msg(<<>>)]
Pending == [state |-> "pending", result |-> NoResult, ready_at |-> -1]

VARIABLES
    build,      \* the build of the crate
    settings,   \* self.settings
    pc,         \* where the call is: "loop", "race", "json", "text", "sleep",
                \* "done" (returned) or "panicked"
    retries,    \* the local `retries`
    attempts,   \* requests issued so far by this call
    futures,    \* the send futures that exist: attempt number -> future
    elapsed,    \* ticks since the current compat::timeout call began
    outcomes,   \* what the compat::timeout call of this attempt produced
    raced,      \* how that call returned: t1 (when the future resolved, -1
                \* if it had not), t2 (the delay), when the select was
                \* polled, and which side won
    response,   \* the status of the response of this attempt
    sleeps,     \* the backoff sleeps performed, in order
    slept,      \* whether the backoff sleep after the last attempt finished
    history,    \* how the attempts so far failed: "none" (no failure yet),
                \* "5xx" (each with a 5xx status), "timed_out" (each by the
                \* timeout elapsing), "timeout" (each by the timeout
                \* elapsing or a connect failure) or "mixed"
    served,     \* the attempt and value of the decoded 2xx body
    result,     \* the value returned by the call
    other,      \* the locals of the other call made on the same Fetcher,
                \* kept while this one runs
    config,     \* the RetrySettings values of the caller that built the
                \* Fetcher: a base value, a copy of it, and the last
                \* operation applied
    warnings,   \* what this call has logged through platform_log!(warn):
                \* how many lines, and the line of the retry in hand
    seen        \* for a call under observation, what each of its attempts
                \* was given: the result of compat::timeout, then the body
                \* read from the response

vars == <<build, settings, pc, retries, attempts, futures, elapsed, outcomes,
          raced, response, sleeps, slept, history, served, result, other,
          config, warnings, seen>>

NoRace == [attempt |-> 0, t1 |-> -1, t2 |-> 0, polled_at |-> 0, kind |-> "none"]
NoServed == [attempt |-> 0, data |-> "none"]
NotReturned == [returned |-> FALSE, ok |-> FALSE, data |-> "none",
                error |-> anyhow_msg(<<>>)]
Returned(ok, data, e) == [returned |-> TRUE, ok |-> ok, data |-> data, error |-> e]

NoWarnings == [count |-> 0, last |-> <<>>]

\* The locals of a call that has not run yet (fetcher.rs:77-78).
NotObserved == [on |-> FALSE, log |-> <<>>]
Observed == [on |-> TRUE, log |-> <<>>]

FreshCall ==
    [seen |-> NotObserved, warnings |-> NoWarnings, pc |-> "loop", retries |-> 0, attempts |-> 0, futures |-> <<>>, elapsed |-> 0,
     outcomes |-> <<>>, raced |-> NoRace, response |-> 0, sleeps |-> <<>>,
     slept |-> FALSE, history |-> "none", served |-> NoServed, result |-> NotReturned]

\* The caller's values when it made the Fetcher by Fetcher::with_settings(s)
\* (fetcher.rs:66-71).
Configured(s) == [base |-> s, copy |-> s, op |-> "Fetcher::with_settings", on |-> "base"]

Init ==
    /\ build \in Builds
    /\ settings \in RetrySettings
    /\ pc = "loop"
    /\ retries = 0
    /\ attempts = 0
    /\ futures = <<>>
    /\ elapsed = 0
    /\ outcomes = <<>>
    /\ raced = NoRace
    /\ response = 0
    /\ sleeps = <<>>
    /\ slept = FALSE
    /\ history = "none"
    /\ served = NoServed
    /\ result = NotReturned
    /\ other = FreshCall
    /\ config = Configured(settings)
    /\ warnings = NoWarnings
    /\ seen = NotObserved

(***************************************************************************)
(* compat::timeout.  One poll of the select on (future, delay): the        *)
(* sequence of results the poll produces, empty while both are pending.    *)
(***************************************************************************)
\* A select whose arms are not exclusive.
timeout_both_arms(duration, future, delay_elapsed) ==
    (IF future.state = "ready" THEN <<future.result>> ELSE <<>>)
    \o (IF delay_elapsed
        THEN <<[ok |-> FALSE, status |-> 0, error |-> TimedOutError(duration)]>>
        ELSE <<>>)

\* A select that polls the delay first.
timeout_delay_first(duration, future, delay_elapsed) ==
    IF delay_elapsed
    THEN <<[ok |-> FALSE, status |-> 0, error |-> TimedOutError(duration)]>>
    ELSE IF future.state = "ready" THEN <<future.result>> ELSE <<>>

\* tokio build (compat.rs:25-47): select! { biased; future, sleep }
tokio_timeout(duration, future, delay_elapsed) ==
    IF future.state = "ready"
    THEN <<future.result>>
    ELSE IF delay_elapsed
         THEN <<[ok |-> FALSE, status |-> 0, error |-> TimedOutError(duration)]>>
         ELSE <<>>

\* worker build (compat.rs:51-74): futures_util::future::select(future, delay)
worker_timeout(duration, future, delay_elapsed) ==
    IF future.state = "ready"
    THEN <<future.result>>
    ELSE IF delay_elapsed
         THEN <<[ok |-> FALSE, status |-> 0, error |-> TimedOutError(duration)]>>
         ELSE <<>>

\* A timeout that reports every failure as the timed-out error.
timeout_masks_errors(duration, future, delay_elapsed) ==
    IF future.state = "ready" /\ future.result.ok
    THEN <<future.result>>
    ELSE IF future.state = "ready" \/ delay_elapsed
         THEN <<[ok |-> FALSE, status |-> 0, error |-> TimedOutError(duration)]>>
         ELSE <<>>

timeout(duration, future, delay_elapsed) ==
    IF build.runtime = "worker"
    THEN worker_timeout(duration, future, delay_elapsed)
    ELSE tokio_timeout(duration, future, delay_elapsed)

\* The future pinned in compat::timeout's frame goes when timeout returns.
keep_future(fs, i) == fs
drop_future(fs, i) == [j \in (DOMAIN fs) \ {i} |-> fs[j]]

(***************************************************************************)
(* Fetcher::fetch_with_retry (fetcher.rs:73-201), one action per stretch   *)
(* of code between two await points.                                       *)
(***************************************************************************)
\* fetcher.rs:117 and 168: is there retry budget left?
budget_left_inclusive(done, max_retries) == done <= max_retries
budget_left(done, max_retries) == done < max_retries

\* 4xx taken for retryable as well.
is_server_error_or_client(status) == status >= 400 /\ status <= 599
\* No status taken for retryable.
status_never_retryable(status) == FALSE
\* Every status that is neither 2xx nor 4xx taken for retryable.
status_retryable_unless_client(status) ==
    ~is_success(status) /\ ~is_client_error(status)
\* StatusCode::is_server_error as used at fetcher.rs:117
status_retryable(status) == is_server_error(status)

\* The kind of failure of an attempt, for the history of the call.
ErrorKind(e) ==
    IF e = TimedOutError(settings.request_timeout)
    THEN "timed_out"
    ELSE IF e.connect THEN "timeout" ELSE "mixed"

Record(kind) ==
    IF history \in {"none", kind}
    THEN kind
    ELSE IF {history, kind} \subseteq {"timed_out", "timeout"} THEN "timeout" ELSE "mixed"

\* A warning line that gives the number of retries allowed as the total.
StatusWarningOfRetries(url, attempt, total, status) ==
    <<"Request", "to", url, "failed", "(attempt", ToString(attempt), "/",
      ToString(total - 1), "):", "Status", ToString(status), ".", "Retrying...">>

\* fetcher.rs:119-126: the line logged when a 5xx is retried.
StatusWarning(url, attempt, total, status) ==
    <<"Request", "to", url, "failed", "(attempt", ToString(attempt), "/",
      ToString(total), "):", "Status", ToString(status), ".", "Retrying...">>

\* fetcher.rs:171-178: the line logged when an error is retried.
ErrorWarning(url, attempt, total, e) ==
    <<"Request", "to", url, "failed", "or", "timed", "out", "(attempt",
      ToString(attempt), "/", ToString(total), "):">> \o to_string(e)
      \o <<".", "Retrying...">>

\* platform_log!(warn, ...) (compat.rs:78-96): logs the line when the
\* feature "log-native" is on, and expands to nothing otherwise.
platform_log(line) ==
    IF build.log_native
    THEN warnings' = [count |-> warnings.count + 1, last |-> line]
    ELSE UNCHANGED warnings

\* What an attempt was given, noted for a call under observation.
Observe(given) ==
    IF seen.on
    THEN seen' = [seen EXCEPT !.log = Append(@, given)]
    ELSE UNCHANGED seen

\* A retry that goes back to the top of the loop without sleeping.
RetryWithoutSleep(kind) ==
    /\ retries' = retries + 1
    /\ history' = Record(kind)
    /\ pc' = "loop"
    /\ UNCHANGED <<sleeps, result>>

\* fetcher.rs:118-130 and 170-181: count the retry, compute the delay and
\* start the backoff sleep (or panic in exponential_backoff).
Retry(kind) ==
    LET delay == exponential_backoff(retries + 1, settings.base_backoff,
                                     build.overflow_checks)
    IN  /\ retries' = retries + 1
        /\ history' = Record(kind)
        /\ IF delay.panic
           THEN pc' = "panicked" /\ sleeps' = sleeps
           ELSE pc' = "sleep" /\ sleeps' = Append(sleeps, delay.delay)
        /\ UNCHANGED result

\* return Err(e)
ReturnErr(kind, e) ==
    /\ pc' = "done"
    /\ result' = Returned(FALSE, "none", e)
    /\ history' = Record(kind)
    /\ UNCHANGED <<retries, sleeps>>

\* fetcher.rs:80-96: the top of the loop builds send_future and calls
\* compat::timeout on it.
SendRequest ==
    /\ pc = "loop"
    /\ attempts' = attempts + 1
    /\ futures' = futures @@ ((attempts + 1) :> Pending)
    /\ elapsed' = 0
    /\ slept' = FALSE
    /\ pc' = "race"
    /\ UNCHANGED <<build, settings, other, config, warnings, seen, retries,
                   outcomes, raced, response, sleeps, history, served,
                   result>>

\* The transport resolves a send future that exists and is still pending.
TransportRespond ==
    \E i \in DOMAIN futures, r \in SendResults :
        /\ futures[i].state = "pending"
        /\ futures' = [futures EXCEPT
                         ![i] = [state |-> "ready", result |-> r, ready_at |-> elapsed]]
        /\ UNCHANGED <<build, settings, other, config, warnings, seen, pc, retries,
                       attempts, elapsed, outcomes, raced, response, sleeps,
                       slept, history, served, result>>

\* Time passes while the call waits in compat::timeout.
Tick ==
    /\ pc = "race"
    /\ elapsed < settings.request_timeout + MaxLatency
    /\ elapsed' = elapsed + 1
    /\ UNCHANGED <<build, settings, other, config, warnings, seen, pc, retries,
                   attempts, futures, outcomes, raced, response, sleeps,
                   slept, history, served, result>>

\* What the poll of compat::timeout's select gives now.
RaceNow ==
    timeout(settings.request_timeout, futures[attempts],
            elapsed >= settings.request_timeout)

\* compat::timeout returns: its frame, and the future pinned in it, go.
RaceReturns ==
    /\ pc = "race"
    /\ RaceNow # <<>>
    /\ outcomes' = outcomes \o RaceNow
    /\ futures' = drop_future(futures, attempts)
    /\ raced' = [attempt |-> attempts,
                 t1 |-> futures[attempts].ready_at,
                 t2 |-> settings.request_timeout,
                 polled_at |-> elapsed,
                 kind |-> IF RaceNow[1] = [ok |-> FALSE, status |-> 0,
                                           error |-> TimedOutError(settings.request_timeout)]
                          THEN "timed_out" ELSE "operation"]
    /\ elapsed' = 0
    /\ Observe(RaceNow[1])
    /\ UNCHANGED <<build, settings, other, config, attempts, slept, served>>

\* fetcher.rs:97-101: Ok(response) with a 2xx status; response.json() is
\* awaited next.
RaceOkSuccess ==
    /\ RaceReturns
    /\ RaceNow[1].ok /\ is_success(RaceNow[1].status)
    /\ response' = RaceNow[1].status
    /\ pc' = "json"
    /\ UNCHANGED <<retries, sleeps, history, result, warnings>>

\* fetcher.rs:113-115: Ok(response) with another status; response.text()
\* is awaited next.
RaceOkFailure ==
    /\ RaceReturns
    /\ RaceNow[1].ok /\ ~is_success(RaceNow[1].status)
    /\ response' = RaceNow[1].status
    /\ pc' = "text"
    /\ UNCHANGED <<retries, sleeps, history, result, warnings>>

\* fetcher.rs:145-198: Err(e), from the future or from the delay.
RaceErr ==
    /\ RaceReturns
    /\ ~RaceNow[1].ok
    /\ UNCHANGED response
    /\ LET e == RaceNow[1].error
           retryable == is_timeout_error(e) \/ is_underlying_retryable(e, build.target)
       IN  IF retryable /\ budget_left(retries, settings.max_retries)
           THEN /\ Retry(ErrorKind(e))
                /\ platform_log(ErrorWarning(Url, retries + 1,
                                             settings.max_retries + 1, e))
           ELSE /\ ReturnErr(ErrorKind(e),
                             FailedError(e, Url,
                                         failure_context(e, build.target, retries,
                                                         settings.max_retries)))
                /\ UNCHANGED warnings

\* A decode failure taken for retryable.
JsonFailureRetried(j) ==
    IF budget_left(retries, settings.max_retries)
    THEN Retry("mixed")
    ELSE ReturnErr("mixed", DeserializeError(Url, response, <<j.data>>))

\* fetcher.rs:103-111: the body does not decode; return the error.
JsonFailure(j) == ReturnErr("mixed", DeserializeError(Url, response, <<j.data>>))

\* fetcher.rs:101-112: response.json() completes.
JsonDone ==
    /\ pc = "json"
    /\ \E j \in JsonResults :
        /\ Observe(j)
        /\ IF j.ok
           THEN /\ result' = Returned(TRUE, j.data, anyhow_msg(<<>>))
                /\ served' = [attempt |-> attempts, data |-> j.data]
                /\ pc' = "done"
                /\ UNCHANGED <<retries, sleeps, history>>
           ELSE /\ JsonFailure(j)
                /\ UNCHANGED served
    /\ UNCHANGED <<build, settings, other, config, warnings, attempts,
                   futures, elapsed, outcomes, raced, response, slept>>

\* fetcher.rs:115-141: response.text() completes.
TextDone ==
    /\ pc = "text"
    /\ \E b \in ErrorBodies :
        /\ Observe(b)
        /\ IF status_retryable(response) /\ budget_left(retries, settings.max_retries)
           THEN /\ Retry("5xx")
                /\ platform_log(StatusWarning(Url, retries + 1,
                                              settings.max_retries + 1, response))
           ELSE /\ ReturnErr(IF is_server_error(response) THEN "5xx" ELSE "mixed",
                             StatusError(Url, response, error_body(b)))
                /\ UNCHANGED warnings
    /\ UNCHANGED <<build, settings, other, config, attempts, futures, elapsed,
                   outcomes, raced, response, slept, served>>

\* compat::sleep(delay) completes (fetcher.rs:129-130, 180-181): continue.
SleepDone ==
    /\ pc = "sleep"
    /\ pc' = "loop"
    /\ slept' = TRUE
    /\ outcomes' = <<>>
    /\ raced' = NoRace
    /\ response' = 0
    /\ warnings' = [warnings EXCEPT !.last = <<>>]
    /\ UNCHANGED <<build, settings, other, config, seen, retries, attempts,
                   futures, elapsed, sleeps, history, served, result>>

Next ==
    \/ SendRequest
    \/ TransportRespond
    \/ Tick
    \/ RaceOkSuccess
    \/ RaceOkFailure
    \/ RaceErr
    \/ JsonDone
    \/ TextDone
    \/ SleepDone

Spec == Init /\ [][Next]_vars

\* A call of compat::timeout returning, whatever the caller goes on to do.
RaceStep == RaceOkSuccess \/ RaceOkFailure \/ RaceErr

\* The calls whose max_retries is one of the small values.
InitSmall == Init /\ settings.max_retries <= SmallRetries

\* The timers fire and the task is polled when woken; the transport owes
\* nothing.
FairSpec ==
    /\ InitSmall
    /\ [][Next]_vars
    /\ WF_vars(SendRequest)
    /\ WF_vars(Tick)
    /\ WF_vars(RaceStep)
    /\ WF_vars(SleepDone)

(***************************************************************************)
(* Properties.                                                             *)
(***************************************************************************)
Done == pc = "done"
Ended == pc \in {"done", "panicked"}
Succeeded == Done /\ result.returned /\ result.ok
Failed == Done /\ result.returned /\ ~result.ok
Message == to_string(result.error)

\* The part of a status error's message that precedes the echoed body.
BeforeBody(msg) ==
    IF \E i \in 1..Len(msg) : msg[i] = "Body:"
    THEN SubSeq(msg, 1, CHOOSE i \in 1..Len(msg) :
                            msg[i] = "Body:" /\ \A j \in 1..(i - 1) : msg[j] # "Body:")
    ELSE msg

\* Every attempt of the call, the last one included, returned a 5xx status.
EveryAttempt5xx == history = "5xx" /\ is_server_error(response) /\ ~Succeeded
\* Every attempt of the call, the last one included, ended by the timeout
\* elapsing or by a connect failure.
EveryAttemptTimedOut == history \in {"timed_out", "timeout"} /\ ~Succeeded

\* C1: a call issues at most max_retries + 1 requests; when an attempt
\* succeeds the call returns that attempt's value, and the requests issued
\* are exactly those up to it, each earlier one having been retried.
C1_AtMostRPlusOneRequests ==
    /\ attempts <= settings.max_retries + 1
    /\ Succeeded =>
        /\ served.attempt = attempts
        /\ result.data = served.data
        /\ retries = attempts - 1
        /\ futures = <<>>

C1_Witness ==
    /\ Succeeded
    /\ attempts = 3
    /\ attempts = settings.max_retries + 1

\* C2: when the call returns success after k retried attempts, the sleeps
\* performed are exactly base_backoff * 2^(i-1) for i = 1..k, in order.
C2_SleepsAreExactPowers ==
    Succeeded =>
        /\ Len(sleeps) = attempts - 1
        /\ \A i \in 1..Len(sleeps) :
             sleeps[i] = WideTimesPowTwo(settings.base_backoff, i - 1)

\* A 4xx response to the first request has been dealt with.
FirstAttempt4xx == attempts = 1 /\ is_client_error(response) /\ pc # "text"

\* C3 as stated: a 4xx on the first attempt ends the call in failure after
\* exactly one request, no sleep, no retry; the message contains
\* "Status <code>" and does not contain the word "attempts".
C3_Original ==
    FirstAttempt4xx =>
        /\ Failed
        /\ sleeps = <<>> /\ retries = 0
        /\ Contains(Message, <<"Status", ToString(response)>>)
        /\ ~Contains(Message, <<"attempts">>)

\* C3 amended: as above, but the word "attempts" is absent from the message
\* apart from the echoed response body.
C3_ClientErrorNotRetried ==
    FirstAttempt4xx =>
        /\ Failed
        /\ sleeps = <<>> /\ retries = 0
        /\ Contains(Message, <<"Status", ToString(response)>>)
        /\ ~Contains(BeforeBody(Message), <<"attempts">>)

C3_Witness ==
    /\ FirstAttempt4xx /\ Failed
    /\ settings.max_retries > 0
    /\ Contains(Message, <<"Status", "404">>)

C5_Original ==
    (Done /\ EveryAttempt5xx) =>
        /\ SubSeq(Message, 1, 8) =
             <<"Request", "to", Url, "failed:", "Status", ToString(response), ",", "Body:">>
        /\ Contains(Message, <<"failed:", "Status", ToString(response)>>)
        /\ ~Contains(Message, <<"attempts">>)

\* C5 amended: the same form; the word "attempts" is absent from it apart
\* from the echoed response body.
C5_ExhaustedStatusErrorForm ==
    (Done /\ EveryAttempt5xx) =>
        /\ Len(result.error.chain) = 1
        /\ SubSeq(Message, 1, 8) =
             <<"Request", "to", Url, "failed:", "Status", ToString(response), ",", "Body:">>
        /\ Contains(Message, <<"failed:", "Status", ToString(response)>>)
        /\ ~Contains(BeforeBody(Message), <<"attempts">>)

C5_Witness ==
    /\ Done /\ EveryAttempt5xx
    /\ attempts > 1
    /\ Contains(Message, <<"failed:", "Status", "503">>)
    /\ Contains(Message, <<"attempts">>)

\* C6: when every attempt ends by the timeout elapsing or a connect
\* failure, the call makes exactly max_retries + 1 attempts and returns an
\* error whose message contains "after <max_retries + 1> attempts" and
\* whose root cause is the last attempt's timeout or connect error.
C6_TimeoutsExhaustBudget ==
    (Ended /\ EveryAttemptTimedOut) =>
        /\ Failed
        /\ attempts = settings.max_retries + 1
        /\ Contains(Message, <<"after", ToString(settings.max_retries + 1), "attempts">>)
        /\ \/ root_cause(result.error) = to_string(TimedOutError(settings.request_timeout))
           \/ result.error.connect

\* compat::timeout has returned for the current attempt.
RaceReturned == raced.kind # "none"

\* C7 as stated: the result is the operation's iff t1 < t2, and the
\* timed-out error iff t2 <= t1 (so also when t1 = t2).
C7_Original ==
    RaceReturned =>
        /\ (raced.kind = "operation") <=> (raced.t1 >= 0 /\ raced.t1 < raced.t2)
        /\ (raced.kind = "timed_out") <=> (raced.t1 < 0 \/ raced.t2 <= raced.t1)

\* C7 amended: the result is the operation's iff the operation has resolved
\* when the race is polled, so whenever t1 <= t2, the tie t1 = t2 included;
\* it is the timed-out error iff the delay has elapsed at that poll and the
\* operation has not resolved, which needs t2 < t1.
C7_OperationWinsUnlessUnresolved ==
    RaceReturned =>
        /\ (raced.kind = "operation") <=> (raced.t1 >= 0)
        /\ (raced.kind = "timed_out") <=> (raced.t1 < 0 /\ raced.t2 <= raced.polled_at)
        /\ raced.t1 <= raced.polled_at
        /\ (raced.t1 >= 0 /\ raced.t1 <= raced.t2) => raced.kind = "operation"

C7_Witness ==
    /\ RaceReturned
    /\ raced.kind = "operation"
    /\ raced.t1 = raced.t2
    /\ raced.polled_at = raced.t2

\* The produced result is the timed-out error.
IsTimedOut(r) ==
    r = [ok |-> FALSE, status |-> 0, error |-> TimedOutError(settings.request_timeout)]

\* C8, safety: a compat::timeout call never produces two results, and once
\* it has returned it has produced exactly one, the operation's result or
\* the timed-out error.
ExactlyOneOutcome ==
    /\ Len(outcomes) <= 1
    /\ pc = "race" => outcomes = <<>>
    /\ RaceReturned =>
        /\ Len(outcomes) = 1
        /\ (raced.kind = "timed_out") <=> IsTimedOut(outcomes[1])
        /\ (raced.kind = "operation") <=> outcomes[1] \in SendResults

\* C8: exactly one outcome per call of compat::timeout, and every call
\* returns: with an operation that never completes, by the timed-out error
\* once the delay has elapsed.
C8_ExactlyOneOutcome ==
    /\ []ExactlyOneOutcome
    /\ (pc = "race") ~> (pc # "race" /\ RaceReturned /\ raced.attempt = attempts)
    /\ [][(pc = "race" /\ pc' # "race" /\ futures[attempts].state = "pending")
            => (raced'.kind = "timed_out" /\ elapsed >= settings.request_timeout)]_vars

C8_Witness ==
    /\ RaceReturned
    /\ raced.kind = "timed_out"
    /\ raced.t1 < 0
    /\ IsTimedOut(outcomes[1])
    /\ attempts = 2

\* C9: when compat::timeout returns the timed-out error the send future is
\* gone; a send future exists only for the attempt being raced, so none of
\* an abandoned attempt progresses or is read later.
C9_LoserDropped ==
    /\ (RaceReturned /\ raced.kind = "timed_out") => raced.attempt \notin DOMAIN futures
    /\ \A i \in DOMAIN futures : i = attempts /\ pc = "race"
    /\ Succeeded => (raced.attempt = attempts /\ raced.kind = "operation")

C9_Witness ==
    /\ pc = "sleep"
    /\ raced.kind = "timed_out"
    /\ raced.attempt = 2
    /\ futures = <<>>

\* C10: at most one request of the call is in flight, and a request is
\* issued only when none exists and, after the first, only once the backoff
\* sleep that followed the previous attempt has finished.
C10_AttemptsSequential ==
    /\ [](Cardinality(DOMAIN futures) <= 1)
    /\ [][attempts' # attempts =>
            /\ attempts' = attempts + 1
            /\ futures = <<>>
            /\ attempts >= 1 => (slept /\ Len(sleeps) = attempts)]_vars

C10_Witness ==
    /\ pc = "race"
    /\ attempts = 3
    /\ Len(sleeps) = 2
    /\ DOMAIN futures = {3}

\* Some layer of the error's chain contains the words.
ChainContains(e, pat) == \E i \in 1..Len(e.chain) : Contains(e.chain[i], pat)

\* The attempt got a status that is neither 2xx nor 5xx, and its body has
\* been read.
StatusTerminal ==
    response # 0 /\ ~is_success(response) /\ ~is_server_error(response) /\ pc # "text"
\* The attempt got a 2xx status and its body did not decode.
DecodeFailed == is_success(response) /\ pc # "json" /\ ~Succeeded

\* C11: a terminal outcome (a non-2xx, non-5xx status or a body that does
\* not decode) at any attempt ends the call at that attempt, whatever budget
\* remains: no request is in flight, no sleep follows the attempt, and the
\* returned error carries the URL and the reason.
C11_TerminalEndsCall ==
    (StatusTerminal \/ DecodeFailed) =>
        /\ Failed
        /\ futures = <<>>
        /\ retries = attempts - 1
        /\ Len(sleeps) = attempts - 1
        /\ ChainContains(result.error, <<Url>>)
        /\ StatusTerminal => ChainContains(result.error, <<"Status", ToString(response)>>)
        /\ DecodeFailed => ChainContains(result.error, <<"deserialize">>)

C11_Witness ==
    /\ StatusTerminal /\ Failed
    /\ attempts = 2
    /\ retries < settings.max_retries
    /\ response = 404

\* The attempt in hand ended in a transport (reqwest) error.
LastTransportError ==
    /\ outcomes # <<>>
    /\ raced.attempt = attempts
    /\ ~outcomes[1].ok
    /\ outcomes[1].error.reqwest
\* ... of a kind the build retries: connect or request on the native target,
\* any on wasm32.
RetriedKind(e) ==
    build.target = "wasm32" \/ e.connect \/ e.request

C13_DecodeFailureTerminal ==
    DecodeFailed =>
        /\ Done /\ Failed
        /\ Contains(root_cause(result.error),
                    <<"Failed", "to", "deserialize", "response", "from", Url>>)
        /\ to_string(result.error) = <<"Status:", ToString(response)>>
        /\ retries = attempts - 1
        /\ Len(sleeps) = attempts - 1
        /\ ~slept

C13_Witness ==
    /\ DecodeFailed /\ Failed
    /\ response = 200
    /\ attempts = 1
    /\ settings.max_retries > 0

(***************************************************************************)
(* exponential_backoff on its own: the function applied to retries = n,    *)
(* n + 1, ... for a first n in {0, 1}, every base_backoff and both         *)
(* overflow settings; sleeps collects the delays it returns.               *)
(***************************************************************************)
\* The largest argument applied: one past the first that overflows the u32.
MaxBackoffArg == FactorBits + 2

BackoffInit ==
    /\ build \in Builds
    /\ settings \in RetrySettings
    /\ pc = "backoff"
    /\ retries \in {0, 1}
    /\ attempts = 0
    /\ futures = <<>>
    /\ elapsed = 0
    /\ outcomes = <<>>
    /\ raced = NoRace
    /\ response = 0
    /\ sleeps = <<>>
    /\ slept = FALSE
    /\ history = "none"
    /\ served = NoServed
    /\ result = NotReturned
    /\ other = FreshCall
    /\ config = Configured(settings)
    /\ warnings = NoWarnings
    /\ seen = NotObserved

\* fetcher.rs:43-50: one call of exponential_backoff(retries, base_backoff).
ApplyBackoff ==
    /\ pc = "backoff"
    /\ retries <= MaxBackoffArg
    /\ LET delay == exponential_backoff(retries, settings.base_backoff,
                                        build.overflow_checks)
       IN  IF delay.panic
           THEN pc' = "panicked" /\ UNCHANGED <<retries, sleeps>>
           ELSE /\ sleeps' = Append(sleeps, delay.delay)
                /\ retries' = retries + 1
                /\ pc' = pc
    /\ UNCHANGED <<build, settings, other, config, warnings, seen, attempts,
                   futures, elapsed, outcomes, raced, response, slept,
                   history, served, result>>

BackoffNext == ApplyBackoff

BackoffSpec == BackoffInit /\ [][BackoffNext]_vars

\* The argument that gave sleeps[i].
BackoffArg(i) == retries - Len(sleeps) + i - 1

\* C14: for every n >= 1 exponential_backoff(n, base) returns base * 2^(n-1),
\* and the delay is strictly larger than the one for n - 1 (base > 0).
C14_BackoffIsExactPower ==
    /\ pc # "panicked"
    /\ \A i \in 1..Len(sleeps) :
          BackoffArg(i) >= 1 =>
              /\ sleeps[i] = WideTimesPowTwo(settings.base_backoff, BackoffArg(i) - 1)
              /\ (i > 1 /\ BackoffArg(i - 1) >= 1) => DurationLess(sleeps[i - 1], sleeps[i])

\* C15: the computation of the delay never overflows: for every n it
\* returns a delay (it does not fail) and the delay is never smaller than
\* the one for n - 1 (the factor is capped or saturates, it does not wrap).
C15_BackoffNeverOverflows ==
    /\ pc # "panicked"
    /\ \A i \in 2..Len(sleeps) : ~DurationLess(sleeps[i], sleeps[i - 1])

\* C16: a call that has returned stays returned, and, the timers firing,
\* every call returns (success, retries exhausted or terminal failure)
\* whatever the transport does: never answering, or answering with the
\* status and headers and then stalling on the body.
C16_CallTerminates == [](Done => []Done) /\ <>Done

\* The call waits for the transport with no timer running: the body of the
\* response is being read.
AwaitsOutsideRace == pc \in {"json", "text"}

\* C17: the call suspends only in the request raced against request_timeout
\* and in the backoff sleep: it never waits for the body of a response
\* outside that race.
C17_SuspendsOnlyInRaceAndSleep == ~AwaitsOutsideRace

\* C19: no step of a call panics, whatever the settings: a call that stops
\* has returned, and a call that failed has returned an error.
C19_NeverPanics ==
    /\ pc # "panicked"
    /\ Ended => Done
    /\ (Done /\ ~Succeeded) => Failed

\* C20: on every failure path the message of the returned error (what
\* to_string() shows) carries the request URL.
C20_MessageCarriesUrl == Failed => Contains(Message, <<Url>>)

(***************************************************************************)
(* Two fetch_with_retry calls on one Fetcher (&self, fetcher.rs:73).  Each *)
(* call is a future with its own locals; the Fetcher's settings are the    *)
(* only state both read.  The variables pc .. result are the locals of the *)
(* call that is running, `other` those of the call that is not; the        *)
(* executor may turn to the other call at any await point.                 *)
(***************************************************************************)
\* The locals of the running call.
Locals ==
    [seen |-> seen, warnings |-> warnings, pc |-> pc, retries |-> retries, attempts |-> attempts, futures |-> futures,
     elapsed |-> elapsed, outcomes |-> outcomes, raced |-> raced,
     response |-> response, sleeps |-> sleeps, slept |-> slept,
     history |-> history, served |-> served, result |-> result]

\* A retry counter kept in the Fetcher, one for all its calls, in place of
\* the local of fetcher.rs:78.
ResumeSharedRetries(saved) ==
    /\ pc' = saved.pc
    /\ retries' = retries
    /\ attempts' = saved.attempts
    /\ futures' = saved.futures
    /\ elapsed' = saved.elapsed
    /\ outcomes' = saved.outcomes
    /\ raced' = saved.raced
    /\ response' = saved.response
    /\ sleeps' = saved.sleeps
    /\ slept' = saved.slept
    /\ history' = saved.history
    /\ served' = saved.served
    /\ result' = saved.result
    /\ warnings' = saved.warnings
    /\ seen' = saved.seen

\* The executor polls a call: the call goes on with its own locals
\* (fetcher.rs:77-78: url_owned, retries; the futures it awaits).
Resume(saved) ==
    /\ pc' = saved.pc
    /\ retries' = saved.retries
    /\ attempts' = saved.attempts
    /\ futures' = saved.futures
    /\ elapsed' = saved.elapsed
    /\ outcomes' = saved.outcomes
    /\ raced' = saved.raced
    /\ response' = saved.response
    /\ sleeps' = saved.sleeps
    /\ slept' = saved.slept
    /\ history' = saved.history
    /\ served' = saved.served
    /\ result' = saved.result
    /\ warnings' = saved.warnings
    /\ seen' = saved.seen

\* The executor leaves the running call at its await point and polls the
\* other one.
Switch ==
    /\ other # Locals
    /\ other' = Locals
    /\ Resume(other)
    /\ UNCHANGED <<build, settings, config>>

\* Two calls on a Fetcher that allows one retry (no factor overflows, so
\* one overflow setting stands for both).
PairInit ==
    /\ Init
    /\ ~build.overflow_checks
    /\ build.log_native
    /\ settings.max_retries = 1
    /\ settings.request_timeout = 1
    /\ settings.base_backoff = 1

PairNext == Next \/ Switch

PairSpec == PairInit /\ [][PairNext]_vars

\* What a call's locals are, given only its own attempts and the settings:
\* one sleep per retry, each the backoff delay of its retry number; one
\* request per retry plus the one in hand; a result only once returned,
\* decided by the call's own last response or error.
CallConsistent(c) ==
    /\ c.retries <= settings.max_retries
    /\ Len(c.sleeps) = c.retries
    /\ \A i \in 1..Len(c.sleeps) :
          c.sleeps[i] = exponential_backoff(i, settings.base_backoff,
                                            build.overflow_checks).delay
    /\ c.attempts = c.retries + (IF c.pc \in {"race", "json", "text", "done"} THEN 1 ELSE 0)
    /\ DOMAIN c.futures \subseteq {c.attempts}
    /\ c.result.returned <=> c.pc = "done"
    /\ c.result.returned =>
          /\ c.result.ok <=> (is_success(c.response) /\ c.served.attempt = c.attempts)
          /\ c.result.ok => c.result.data = c.served.data
          /\ (~c.result.ok /\ c.response = 0) =>
                /\ c.outcomes # <<>> /\ ~c.outcomes[1].ok
                /\ root_cause(c.result.error) = root_cause(c.outcomes[1].error)

\* C18: two calls interleaved on one Fetcher share no mutable state: a step
\* of one call leaves the locals of the other as they were, each call's
\* attempts, sleeps and result are those its own outcomes and the settings
\* give, and no step changes the Fetcher's settings.
C18_CallsShareNoState ==
    /\ [](CallConsistent(Locals) /\ CallConsistent(other))
    /\ [][settings' = settings /\ build' = build]_vars
    /\ [][other' = other \/ (other' = Locals /\ Locals' = other)]_vars

C18_Witness ==
    /\ Succeeded /\ attempts = 1
    /\ other.pc = "sleep" /\ other.retries = 1 /\ other.history = "5xx"

(***************************************************************************)
(* RetrySettings and its builders (fetcher.rs:8-40), and the constructors  *)
(* of Fetcher (fetcher.rs:59-71, 204-208).  Durations here are in seconds. *)
(* A caller makes a base value, overrides fields on the base or on a copy  *)
(* of it, and makes Fetchers; a Fetcher is its settings.                   *)
(***************************************************************************)
\* fetcher.rs:17-19
DefaultMaxRetries == 3
DefaultRequestTimeoutSecs == 10
DefaultBaseBackoffSecs == 2

\* A default() with the two durations exchanged.
RetrySettingsDefaultSwapped ==
    [max_retries |-> DefaultMaxRetries,
     request_timeout |-> DefaultBaseBackoffSecs,
     base_backoff |-> DefaultRequestTimeoutSecs]

\* impl Default for RetrySettings (fetcher.rs:14-22)
RetrySettingsDefault ==
    [max_retries |-> DefaultMaxRetries,
     request_timeout |-> DefaultRequestTimeoutSecs,
     base_backoff |-> DefaultBaseBackoffSecs]

\* RetrySettings::new (fetcher.rs:25-27)
RetrySettingsNew == RetrySettingsDefault

\* A builder that starts again from the defaults.
with_max_retries_from_default(self, max_retries) ==
    [RetrySettingsDefault EXCEPT !.max_retries = max_retries]

\* fetcher.rs:28-31
with_max_retries(self, max_retries) == [self EXCEPT !.max_retries = max_retries]
\* fetcher.rs:32-35
with_request_timeout(self, request_timeout) == [self EXCEPT !.request_timeout = request_timeout]
\* fetcher.rs:36-39
with_base_backoff(self, backoff) == [self EXCEPT !.base_backoff = backoff]

\* Fetcher::new (fetcher.rs:59-64), Fetcher::with_settings (fetcher.rs:66-71)
\* and impl Default for Fetcher (fetcher.rs:204-208): the settings held.
FetcherNew == RetrySettingsDefault
with_settings(s) == s
FetcherDefault == FetcherNew

\* The arguments the caller passes: usize values, and Durations in seconds
\* (Duration::ZERO included).
RetriesArgs == {0, 1, DefaultMaxRetries}
SecondsArgs == {0, DefaultBaseBackoffSecs, DefaultRequestTimeoutSecs}

\* let base = RetrySettings::default() or RetrySettings::new(), and the
\* Fetcher of Fetcher::new() or Fetcher::default().
SettingsInit ==
    /\ build \in {b \in Builds : b.target = "native" /\ ~b.overflow_checks /\ ~b.log_native}
    /\ \E made \in {[op |-> "RetrySettings::default", value |-> RetrySettingsDefault],
                    [op |-> "RetrySettings::new", value |-> RetrySettingsNew]} :
          config = [base |-> made.value, copy |-> made.value, op |-> made.op, on |-> "base"]
    /\ settings \in {FetcherNew, FetcherDefault}
    /\ pc = "config"
    /\ retries = 0
    /\ attempts = 0
    /\ futures = <<>>
    /\ elapsed = 0
    /\ outcomes = <<>>
    /\ raced = NoRace
    /\ response = 0
    /\ sleeps = <<>>
    /\ slept = FALSE
    /\ history = "none"
    /\ served = NoServed
    /\ result = NotReturned
    /\ other = FreshCall
    /\ warnings = NoWarnings
    /\ seen = NotObserved

CallFrame ==
    UNCHANGED <<build, pc, retries, attempts, futures, elapsed, outcomes, raced,
                response, sleeps, slept, history, served, result, other, warnings,
                seen>>

\* A builder call on the base or on the copy, rebinding it.
Override(on, op, value) ==
    /\ config' = [config EXCEPT ![on] = value, !.op = op, !.on = on]
    /\ UNCHANGED settings
    /\ CallFrame

WithMaxRetries ==
    \E on \in {"base", "copy"}, n \in RetriesArgs :
        Override(on, "with_max_retries", with_max_retries(config[on], n))
WithRequestTimeout ==
    \E on \in {"base", "copy"}, d \in SecondsArgs :
        Override(on, "with_request_timeout", with_request_timeout(config[on], d))
WithBaseBackoff ==
    \E on \in {"base", "copy"}, d \in SecondsArgs :
        Override(on, "with_base_backoff", with_base_backoff(config[on], d))

\* let copy = base.clone() (#[derive(Clone)], fetcher.rs:7)
CloneBase ==
    /\ config' = [config EXCEPT !.copy = config.base, !.op = "clone", !.on = "copy"]
    /\ UNCHANGED settings
    /\ CallFrame

\* Fetcher::with_settings(base.clone())
BuildWithSettings ==
    /\ settings' = with_settings(config.base)
    /\ config' = [config EXCEPT !.op = "Fetcher::with_settings", !.on = "base"]
    /\ CallFrame

\* Fetcher::new() and Fetcher::default()
BuildNew ==
    /\ settings' = FetcherNew
    /\ config' = [config EXCEPT !.op = "Fetcher::new", !.on = "base"]
    /\ CallFrame
BuildDefault ==
    /\ settings' = FetcherDefault
    /\ config' = [config EXCEPT !.op = "Fetcher::default", !.on = "base"]
    /\ CallFrame

SettingsNext ==
    \/ WithMaxRetries
    \/ WithRequestTimeout
    \/ WithBaseBackoff
    \/ CloneBase
    \/ BuildWithSettings
    \/ BuildNew
    \/ BuildDefault

SettingsSpec == SettingsInit /\ [][SettingsNext]_vars

\* C21: RetrySettings::default() and RetrySettings::new() give max_retries 3,
\* request_timeout 10 s and base_backoff 2 s, and the Fetcher of
\* Fetcher::new() or Fetcher::default() holds exactly these settings.
C21_Defaults ==
    LET stated == [max_retries |-> 3, request_timeout |-> 10, base_backoff |-> 2]
    IN  /\ config.op \in {"RetrySettings::default", "RetrySettings::new"} =>
              config.base = stated
        /\ config.op \in {"Fetcher::new", "Fetcher::default"} => settings = stated

C21_Witness ==
    /\ config.op = "Fetcher::default"
    /\ config.base # RetrySettingsDefault
    /\ settings.request_timeout = 10

\* The fields a builder does not name are the same in both values.
OtherFieldsKept(op, before, after) ==
    /\ op # "with_max_retries" => after.max_retries = before.max_retries
    /\ op # "with_request_timeout" => after.request_timeout = before.request_timeout
    /\ op # "with_base_backoff" => after.base_backoff = before.base_backoff

\* C22: a builder call changes only the field it names in the value it is
\* applied to; applied to a copy of the base it leaves the base, and the
\* settings of a Fetcher already built, as they were.
C22_BuilderFrame ==
    [][config'.op \in {"with_max_retries", "with_request_timeout", "with_base_backoff"} =>
          /\ OtherFieldsKept(config'.op, config[config'.on], config'[config'.on])
          /\ config'.on = "copy" => config'.base = config.base
          /\ config'.on = "base" => config'.copy = config.copy
          /\ settings' = settings]_vars

C22_Witness ==
    /\ config.op = "with_request_timeout" /\ config.on = "copy"
    /\ config.copy.request_timeout # config.base.request_timeout
    /\ config.copy.max_retries = config.base.max_retries
    /\ settings = config.base
    /\ settings # RetrySettingsDefault

\* The invariant stated for RetrySettings.
SettingsValid(s) == s.max_retries >= 0 /\ s.request_timeout > 0 /\ s.base_backoff > 0

\* C23: every RetrySettings value made from default() by builder calls,
\* and the settings of every Fetcher made from one, has max_retries >= 0,
\* request_timeout > 0 and base_backoff > 0.
C23_SettingsInvariant ==
    /\ SettingsValid(config.base)
    /\ SettingsValid(config.copy)
    /\ SettingsValid(settings)

\* The operation and the delay of the compat::timeout call in hand become
\* ready at the same tick, and the select is polled at that tick.
ReadyTogether ==
    /\ pc = "race"
    /\ futures[attempts].state = "ready"
    /\ futures[attempts].ready_at = settings.request_timeout
    /\ elapsed = settings.request_timeout

\* C24: the tokio build and the worker build of compat::timeout give the
\* same outcome for the same operation (pending or resolved, and its
\* result), the same duration and the same state of the delay: the same
\* value, or the timed-out error with the same message, also when the
\* operation and the delay are ready together.
C24_RuntimesAgree ==
    pc = "race" =>
        \A delay_elapsed \in BOOLEAN :
            tokio_timeout(settings.request_timeout, futures[attempts], delay_elapsed)
              = worker_timeout(settings.request_timeout, futures[attempts], delay_elapsed)

C24_Witness ==
    /\ ReadyTogether
    /\ futures[attempts].result.ok
    /\ tokio_timeout(settings.request_timeout, futures[attempts], TRUE)
         = <<futures[attempts].result>>

(***************************************************************************)
(* PerpsFetcher::fetch_positions (perps.rs:173-190): fetch_with_retry on   *)
(* the positions URL, its error replaced by a new one that quotes the      *)
(* Display of the old.                                                     *)
(***************************************************************************)
WalletAddress == "wallet1"

\* perps.rs:183-189: map_err(|e| anyhow!("Failed to fetch positions for
\* wallet {}: {}", wallet_address, e))
PositionsError(wallet_address, e) ==
    anyhow_msg(<<"Failed", "to", "fetch", "positions", "for", "wallet",
                 wallet_address, ":">> \o to_string(e))

\* What fetch_positions returns once its fetch_with_retry call has returned.
fetch_positions(wallet_address) ==
    IF result.ok
    THEN result
    ELSE [result EXCEPT !.error = PositionsError(wallet_address, result.error)]

\* C25: with max_retries = 2, when every attempt times out, the message of
\* the error fetch_positions returns contains "timed out" or contains
\* "after 2 retries".
C25_PositionsTimeoutMessage ==
    (Failed /\ history = "timed_out" /\ settings.max_retries = 2) =>
        LET message == to_string(fetch_positions(WalletAddress).error)
        IN  \/ Contains(message, <<"timed", "out">>)
            \/ Contains(message, <<"after", "2", "retries">>)

C27_SleepsBetweenAttempts ==
    /\ attempts = 0 => sleeps = <<>>
    /\ pc \in {"race", "json", "text"} => Len(sleeps) = attempts - 1
    /\ pc = "sleep" => (Len(sleeps) = attempts /\ ~slept)
    /\ pc = "loop" => (Len(sleeps) = attempts /\ (attempts > 0 => slept))
    /\ Done => (Len(sleeps) = attempts - 1 /\ ~slept)

C27_Witness ==
    /\ Failed
    /\ attempts = 3
    /\ settings.max_retries = 2
    /\ Len(sleeps) = 2

\* C28: the retry budget is one counter for every kind of retryable
\* failure: in a call whose attempts failed in different ways (5xx
\* statuses, timeouts, connect failures) each retried failure has taken one
\* unit of max_retries, and the i-th retry sleeps base_backoff * 2^(i-1)
\* whatever failures came before it.
C28_OneBudgetForAllKinds ==
    history = "mixed" =>
        /\ retries <= settings.max_retries
        /\ retries = (IF pc \in {"race", "json", "text", "done"}
                      THEN attempts - 1 ELSE attempts)
        /\ Len(sleeps) = retries
        /\ \A i \in 1..Len(sleeps) :
              sleeps[i] = WideTimesPowTwo(settings.base_backoff, i - 1)

\* The attempt in progress is about to end in a retryable failure: a 5xx
\* status whose body has been read (fetcher.rs:117), or an Err from
\* compat::timeout that is a timeout or retryable underneath
\* (fetcher.rs:157-168).
RetryableFailureNow ==
    \/ pc = "text" /\ is_server_error(response)
    \/ /\ pc = "race"
       /\ RaceNow # <<>>
       /\ ~RaceNow[1].ok
       /\ \/ is_timeout_error(RaceNow[1].error)
          \/ is_underlying_retryable(RaceNow[1].error, build.target)

RetriesInBudget == 0 <= retries /\ retries <= settings.max_retries

RetriesStep ==
    \/ retries' = retries
    \/ /\ retries' = retries + 1
       /\ retries < settings.max_retries
       /\ RetryableFailureNow

\* C29: throughout a call 0 <= retries <= max_retries; retries starts at
\* 0, goes up by exactly 1 and only on a retryable failure met with
\* retries < max_retries, and is never decremented or reset.
C29_RetriesCounter ==
    /\ retries = 0
    /\ []RetriesInBudget
    /\ [][RetriesStep]_vars

C29_Witness ==
    /\ Failed
    /\ retries = 2
    /\ retries = settings.max_retries
    /\ history = "mixed"

\* The call has returned the error of an attempt that timed out: the error
\* underneath the context is the one compat::timeout makes, or a transport
\* error whose message says "timed out".
ReturnedTimeout ==
    /\ Failed
    /\ Len(result.error.chain) = 2
    /\ Contains(root_cause(result.error), <<"timed", "out">>)

\* C30: every error returned for an attempt that timed out has the context
\* "Request to <url> failed after max_retries+1 attempts", and no error the
\* call returns has the context "due to timeout".
C30_TimeoutContextIsAttempts ==
    /\ ReturnedTimeout =>
          to_string(result.error) =
              <<"Request", "to", Url, "failed", "after",
                ToString(settings.max_retries + 1), "attempts">>
    /\ Failed =>
          \A i \in 1..Len(result.error.chain) :
              ~Contains(result.error.chain[i], <<"due", "to", "timeout">>)

C30_Witness ==
    /\ ReturnedTimeout
    /\ raced.kind = "timed_out"
    /\ settings.max_retries = 0
    /\ attempts = 1
    /\ Contains(to_string(result.error), <<"after", "1", "attempts">>)

\* The attempt just raced ended in a transport error that is neither a
\* connect nor a request error and whose message has no "timed out".
LastOtherTransportError ==
    /\ LastTransportError
    /\ ~outcomes[1].error.connect
    /\ ~outcomes[1].error.request
    /\ ~is_timeout_error(outcomes[1].error)

\* C31: on the native build such an error ends the call at that attempt
\* with "due to non-retryable error", no retry counted and no sleep, even
\* with budget left; on wasm32 the same error is retried while budget is
\* left (the call goes on to the backoff sleep and another attempt) and ends
\* the call only when the budget is used up.
C31_OtherTransportErrorByTarget ==
    LastOtherTransportError =>
        IF build.target = "native"
        THEN /\ Failed
             /\ retries = attempts - 1
             /\ Len(sleeps) = retries
             /\ to_string(result.error) =
                    <<"Request", "to", Url, "failed", "due", "to",
                      "non-retryable", "error">>
        ELSE \/ /\ pc = "sleep"
                /\ retries = attempts
                /\ Len(sleeps) = retries
             \/ /\ Failed
                /\ retries = settings.max_retries
                /\ attempts = retries + 1

\* The attempt just raced ended in an error whose message contains
\* "timed out", whoever made it.
LastTimedOutError ==
    /\ outcomes # <<>>
    /\ raced.attempt = attempts
    /\ ~outcomes[1].ok
    /\ Contains(to_string(outcomes[1].error), <<"timed", "out">>)

\* C32: an attempt error whose message contains "timed out" is treated as a
\* timeout, from compat::timeout's delay or from the transport alike: it is
\* retried while budget is left (the call goes on to the backoff sleep and
\* another attempt) and ends the call only when the budget is used up; and
\* the error compat::timeout makes when its delay wins always passes that
\* test.
C32_TimedOutMessageIsTimeout ==
    /\ (outcomes # <<>> /\ raced.kind = "timed_out") => LastTimedOutError
    /\ LastTimedOutError =>
          \/ /\ pc = "sleep"
             /\ retries = attempts
             /\ Len(sleeps) = retries
          \/ /\ Failed
             /\ retries = settings.max_retries
             /\ attempts = retries + 1

\* The attempt got a status that is neither 2xx nor 5xx and the body of
\* the response has been read.
OtherStatusRead ==
    /\ response # 0
    /\ ~is_success(response)
    /\ ~is_server_error(response)
    /\ pc # "text"

\* C33: a non-2xx status outside the 5xx range (1xx, 3xx or 4xx) is
\* terminal: the call returns "Request to <url> failed: Status <code>,
\* Body: ..." at that attempt, with no retry counted and no sleep; a status
\* that was retried is always in the 5xx range.
C33_OnlyServerErrorsRetried ==
    /\ OtherStatusRead =>
          /\ Failed
          /\ retries = attempts - 1
          /\ Len(sleeps) = retries
          /\ \E b \in ErrorBodies :
                result.error = StatusError(Url, response, error_body(b))
    /\ (pc \in {"sleep", "panicked"} /\ response # 0) => is_server_error(response)

C33_Witness ==
    /\ OtherStatusRead
    /\ response = 101
    /\ attempts = 2
    /\ retries = 1
    /\ settings.max_retries = 2
    /\ Failed

\* The send future of the attempt in hand has completed with an error
\* before the delay of compat::timeout elapsed.
OperationFailedInTime ==
    /\ pc = "race"
    /\ futures[attempts].state = "ready"
    /\ ~futures[attempts].result.ok
    /\ futures[attempts].ready_at < settings.request_timeout

\* C35: when the operation passed to compat::timeout completes with an
\* error before the delay elapses, timeout returns that error as it is,
\* with nothing added to it, and never the timed-out error in its place.
C35_OperationErrorPassedThrough ==
    [][(OperationFailedInTime /\ pc' # "race") =>
          /\ outcomes' = <<futures[attempts].result>>
          /\ raced'.kind = "operation"
          /\ outcomes'[1].error # TimedOutError(settings.request_timeout)]_vars

C35_Witness ==
    /\ RaceReturned
    /\ raced.kind = "operation"
    /\ raced.t1 >= 0 /\ raced.t1 < raced.t2
    /\ raced.polled_at >= raced.t2
    /\ outcomes # <<>>
    /\ ~outcomes[1].ok
    /\ outcomes[1].error \in TransportErrors

(***************************************************************************)
(* Two calls made one after the other on one Fetcher, with what each of    *)
(* their attempts was given on record.                                     *)
(***************************************************************************)
\* The first call has ended; the second begins with locals of its own.
SecondCall ==
    /\ pc \in {"done", "panicked"}
    /\ other = [FreshCall EXCEPT !.seen = Observed]
    /\ Switch

\* The retry budget of the two calls.
DetRetries == 1

DetInit ==
    /\ build \in {b \in Builds : ~b.overflow_checks /\ ~b.log_native}
    /\ settings \in {s \in RetrySettings :
                        /\ s.max_retries <= DetRetries
                        /\ s.request_timeout = 1
                        /\ s.base_backoff = 1}
    /\ pc = "loop"
    /\ retries = 0
    /\ attempts = 0
    /\ futures = <<>>
    /\ elapsed = 0
    /\ outcomes = <<>>
    /\ raced = NoRace
    /\ response = 0
    /\ sleeps = <<>>
    /\ slept = FALSE
    /\ history = "none"
    /\ served = NoServed
    /\ result = NotReturned
    /\ other = [FreshCall EXCEPT !.seen = Observed]
    /\ config = Configured(settings)
    /\ warnings = NoWarnings
    /\ seen = Observed

\* The second call is running or has ended: the first has ended.
SecondCallMade == other.pc \in {"done", "panicked"}

\* The second call is given what the first was given, attempt by attempt:
\* what it has been given so far is what the first was given first, and a
\* response or error the transport has ready for it is the one the first
\* call was given next.
SameGiven ==
    SecondCallMade =>
        /\ Len(seen.log) <= Len(other.seen.log)
        /\ seen.log = SubSeq(other.seen.log, 1, Len(seen.log))
        /\ \A i \in DOMAIN futures :
              futures[i].state = "ready" =>
                  /\ Len(seen.log) < Len(other.seen.log)
                  /\ futures[i].result = other.seen.log[Len(seen.log) + 1]

\* A step of the call in hand, the second given what the first was.
CallStep == Next /\ SameGiven'

DetNext == CallStep \/ SecondCall

DetSpec == DetInit /\ [][DetNext]_vars

\* Both calls have ended and their attempts were given the same outcomes,
\* one by one.
SameOutcomes ==
    /\ SecondCallMade
    /\ pc \in {"done", "panicked"}
    /\ seen.log = other.seen.log

\* C34: fetch_with_retry is deterministic in its inputs: two calls with
\* equal RetrySettings whose attempts are given the same sequence of
\* outcomes make the same number of attempts, perform the same sequence of
\* sleeps and return the same result.
C34_SameInputsSameResult ==
    SecondCallMade =>
        /\ pc \in {"done", "panicked"} <=> seen.log = other.seen.log
        /\ SameOutcomes =>
              /\ attempts = other.attempts
              /\ retries = other.retries
              /\ sleeps = other.sleeps
              /\ result = other.result
              /\ pc = other.pc

C34_Witness ==
    /\ SameOutcomes
    /\ attempts = 2
    /\ Len(sleeps) = 1
    /\ Failed
    /\ raced # other.raced

====
